---- MODULE Spec2Model ----
(***************************************************************************)
(* Model of the WebSocket relay in src/main.go: the registry `clients`,    *)
(* the unbuffered channel `broadcast`, the mutex, one wsHandler goroutine  *)
(* per connection, the handleBroadcast goroutine and the keepAlive         *)
(* goroutine.                                                              *)
(***************************************************************************)
EXTENDS Integers, FiniteSets, Sequences, TLC

\* Number of connections that may ever be upgraded.
NConns == 3
\* Total number of messages the peers send over all connections.
MaxMsgs == 2

\* Number of connections in the fair specification.
NLive == 2

\* Echo server: number of requests and of messages echoed per connection.
NEcho == 3
MaxEcho == 2

Conns == 1..NConns
EchoReqs == 1..NEcho
LiveConns == 1..NLive

\* Goroutine identities (the holder of the mutex is one of these, or Free).
Handler(c) == <<"wsHandler", c>>
Broadcaster == <<"handleBroadcast", 0>>
Prober == <<"keepAlive", 0>>
Free == <<"unlocked", 0>>
Tasks == {Handler(c) : c \in Conns} \cup {Broadcaster, Prober}

\* The zero value of the anonymous struct {sender, message}.
NoData == [sender |-> 0, message |-> <<0, 0>>]
\* struct{sender, message}{sender: conn, message: message}
Envelope(conn, message) == [sender |-> conn, message |-> message]

VARIABLES
    clients,    \* map[*websocket.Conn]bool, as the set of its keys
    broadcast,  \* unbuffered channel: the envelopes of the blocked senders
    mutex,      \* sync.Mutex: Free or the goroutine holding it
    hpc,        \* position of each wsHandler goroutine
    nread,      \* number of messages read so far from each connection
    closedBy,   \* per connection, the goroutines that called Close on it
    regCount,   \* per connection, how often it was inserted into clients
    bpc,        \* position of handleBroadcast
    data,       \* the envelope handleBroadcast is processing
    bseen,      \* keys the broadcast range loop has already produced
    bcur,       \* the client the broadcast loop is writing to
    bstart,     \* registry at the moment the broadcast traversal began
    bcount,     \* writes issued per connection in this broadcast traversal
    bfailed,    \* connections whose write failed in this broadcast traversal
    lastSeq,    \* per sender, its highest message number written to a client
    ndeq,       \* per sender, the number of its envelopes handleBroadcast received
    ppc,        \* position of keepAlive
    pseen,      \* keys the ping range loop has already produced
    pcur,       \* the client the ping loop is writing to
    pstart,     \* registry at the moment the ping traversal began
    pcount,     \* pings issued per connection in this ping traversal
    pfailed,    \* connections whose ping failed in this ping traversal
    epc,        \* echo server: position of each wsEndpoint handler
    ews,        \* echo server: whether the handler's ws is a connection (not nil)
    necho       \* echo server: messages echoed on each connection

hvars == <<hpc, nread, regCount>>
bvars == <<bpc, data, bseen, bcur, bstart, bcount, bfailed, lastSeq, ndeq>>
pvars == <<ppc, pseen, pcur, pstart, pcount, pfailed>>
mvars == <<clients, broadcast, mutex, closedBy, hvars, bvars, pvars>>
evars == <<epc, ews, necho>>
vars == <<mvars, evars>>

Zero == [c \in Conns |-> 0]
Max(a, b) == IF a > b THEN a ELSE b

RECURSIVE SumTo(_, _)
SumTo(f, n) == IF n = 0 THEN 0 ELSE f[n] + SumTo(f, n - 1)
\* Messages read so far over all connections.
TotalRead == SumTo(nread, NConns)

Init ==
    /\ clients = {}
    /\ broadcast = {}
    /\ mutex = Free
    /\ hpc = [c \in Conns |-> "start"]
    /\ nread = Zero
    /\ closedBy = [c \in Conns |-> {}]
    /\ regCount = Zero
    /\ bpc = "recv"
    /\ data = NoData
    /\ bseen = {}
    /\ bcur = 0
    /\ bstart = {}
    /\ bcount = Zero
    /\ bfailed = {}
    /\ lastSeq = Zero
    /\ ndeq = Zero
    /\ ppc = "tick"
    /\ pseen = {}
    /\ pcur = 0
    /\ pstart = {}
    /\ pcount = Zero
    /\ pfailed = {}
    /\ epc = [e \in EchoReqs |-> "start"]
    /\ ews = [e \in EchoReqs |-> FALSE]
    /\ necho = [e \in EchoReqs |-> 0]

----------------------------------------------------------------------------
\* sync.Mutex

\* Fault variant of Lock: takes the mutex without waiting for it.
LockNoWait(t) == mutex' = t
Lock(t) == mutex = Free /\ mutex' = t
Unlock == mutex' = Free

\* A connection on which Close was called: every later read or write fails.
IsClosed(c) == closedBy[c] # {}

----------------------------------------------------------------------------
\* wsHandler, one goroutine per request

\* upgrader.Upgrade succeeds; connections are numbered in order of arrival.
UpgradeOk(c) ==
    /\ hpc[c] = "start"
    /\ \A d \in 1..(c - 1) : hpc[d] # "start"
    /\ hpc' = [hpc EXCEPT ![c] = "admit"]
    /\ UNCHANGED <<clients, broadcast, mutex, closedBy, nread, regCount, bvars, pvars, evars>>

\* Fault variant of UpgradeFail: the connection is registered before the
\* error of the upgrade is looked at.
UpgradeFailRegistered(c) ==
    /\ hpc[c] = "start"
    /\ \A d \in 1..(c - 1) : hpc[d] # "start"
    /\ hpc' = [hpc EXCEPT ![c] = "rejected"]
    /\ clients' = clients \cup {c}
    /\ UNCHANGED <<broadcast, mutex, closedBy, nread, regCount, bvars, pvars, evars>>

\* upgrader.Upgrade fails: log and return before the defer is installed.
UpgradeFail(c) ==
    /\ hpc[c] = "start"
    /\ \A d \in 1..(c - 1) : hpc[d] # "start"
    /\ hpc' = [hpc EXCEPT ![c] = "rejected"]
    /\ UNCHANGED <<clients, broadcast, mutex, closedBy, nread, regCount, bvars, pvars, evars>>

\* mutex.Lock() before the registration
RegLock(c) ==
    /\ hpc[c] = "admit"
    /\ Lock(Handler(c))
    /\ hpc' = [hpc EXCEPT ![c] = "register"]
    /\ UNCHANGED <<clients, broadcast, closedBy, nread, regCount, bvars, pvars, evars>>

\* Fault variant of Register: the mutex is not released.
RegisterNoUnlock(c) ==
    /\ hpc[c] = "register"
    /\ clients' = clients \cup {c}
    /\ regCount' = [regCount EXCEPT ![c] = @ + 1]
    /\ hpc' = [hpc EXCEPT ![c] = "welcome"]
    /\ UNCHANGED <<broadcast, mutex, closedBy, nread, bvars, pvars, evars>>

\* clients[conn] = true; mutex.Unlock()
Register(c) ==
    /\ hpc[c] = "register"
    /\ clients' = clients \cup {c}
    /\ regCount' = [regCount EXCEPT ![c] = @ + 1]
    /\ Unlock
    /\ hpc' = [hpc EXCEPT ![c] = "welcome"]
    /\ UNCHANGED <<broadcast, closedBy, nread, bvars, pvars, evars>>

\* conn.WriteMessage(TextMessage, welcome) is called
WelcomeBegin(c) ==
    /\ hpc[c] = "welcome"
    /\ hpc' = [hpc EXCEPT ![c] = "welcoming"]
    /\ UNCHANGED <<clients, broadcast, mutex, closedBy, nread, regCount, bvars, pvars, evars>>

\* the welcome write returns nil
WelcomeOk(c) ==
    /\ hpc[c] = "welcoming"
    /\ ~IsClosed(c)
    /\ hpc' = [hpc EXCEPT ![c] = "read"]
    /\ UNCHANGED <<clients, broadcast, mutex, closedBy, nread, regCount, bvars, pvars, evars>>

\* Fault variant of WelcomeErr: returns without running the deferred cleanup.
WelcomeErrNoDefer(c) ==
    /\ hpc[c] = "welcoming"
    /\ hpc' = [hpc EXCEPT ![c] = "done"]
    /\ UNCHANGED <<clients, broadcast, mutex, closedBy, nread, regCount, bvars, pvars, evars>>

\* the welcome write returns an error: return, which runs the defer
WelcomeErr(c) ==
    /\ hpc[c] = "welcoming"
    /\ hpc' = [hpc EXCEPT ![c] = "defer_lock"]
    /\ UNCHANGED <<clients, broadcast, mutex, closedBy, nread, regCount, bvars, pvars, evars>>

\* conn.ReadMessage() is called
ReadBegin(c) ==
    /\ hpc[c] = "read"
    /\ hpc' = [hpc EXCEPT ![c] = "reading"]
    /\ UNCHANGED <<clients, broadcast, mutex, closedBy, nread, regCount, bvars, pvars, evars>>

\* Fault variant of ReadOk: the channel send does not block the read loop.
ReadOkAsync(c) ==
    /\ hpc[c] = "reading"
    /\ ~IsClosed(c)
    /\ TotalRead < MaxMsgs
    /\ nread' = [nread EXCEPT ![c] = @ + 1]
    /\ broadcast' = broadcast \cup {Envelope(c, <<c, nread[c] + 1>>)}
    /\ UNCHANGED <<clients, mutex, closedBy, hpc, regCount, bvars, pvars, evars>>

\* Fault variant of ReadOk: the channel send gives up at once when
\* handleBroadcast is not receiving, and the message is dropped.
ReadOkDrop(c) ==
    /\ hpc[c] = "reading"
    /\ ~IsClosed(c)
    /\ TotalRead < MaxMsgs
    /\ nread' = [nread EXCEPT ![c] = @ + 1]
    /\ hpc' = [hpc EXCEPT ![c] = "read"]
    /\ UNCHANGED <<clients, broadcast, mutex, closedBy, regCount, bvars, pvars, evars>>

\* ReadMessage returns a message; the handler blocks in `broadcast <- ...`
ReadOk(c) ==
    /\ hpc[c] = "reading"
    /\ ~IsClosed(c)
    /\ TotalRead < MaxMsgs
    /\ nread' = [nread EXCEPT ![c] = @ + 1]
    /\ broadcast' = broadcast \cup {Envelope(c, <<c, nread[c] + 1>>)}
    /\ hpc' = [hpc EXCEPT ![c] = "send"]
    /\ UNCHANGED <<clients, mutex, closedBy, regCount, bvars, pvars, evars>>

\* Fault variant of ReadErr: the handler closes the connection at once,
\* before the deferred cleanup has removed it from the registry.
ReadErrCloseFirst(c) ==
    /\ hpc[c] = "reading"
    /\ closedBy' = [closedBy EXCEPT ![c] = @ \cup {Handler(c)}]
    /\ hpc' = [hpc EXCEPT ![c] = "defer_lock"]
    /\ UNCHANGED <<clients, broadcast, mutex, nread, regCount, bvars, pvars, evars>>

\* ReadMessage returns an error: break, then return, which runs the defer
ReadErr(c) ==
    /\ hpc[c] = "reading"
    /\ hpc' = [hpc EXCEPT ![c] = "defer_lock"]
    /\ UNCHANGED <<clients, broadcast, mutex, closedBy, nread, regCount, bvars, pvars, evars>>

\* defer: mutex.Lock()
DeferLock(c) ==
    /\ hpc[c] = "defer_lock"
    /\ Lock(Handler(c))
    /\ hpc' = [hpc EXCEPT ![c] = "defer_delete"]
    /\ UNCHANGED <<clients, broadcast, closedBy, nread, regCount, bvars, pvars, evars>>

\* defer: delete(clients, conn); mutex.Unlock()
DeferDelete(c) ==
    /\ hpc[c] = "defer_delete"
    /\ clients' = clients \ {c}
    /\ Unlock
    /\ hpc' = [hpc EXCEPT ![c] = "defer_close"]
    /\ UNCHANGED <<broadcast, closedBy, nread, regCount, bvars, pvars, evars>>

\* defer: conn.Close()
DeferClose(c) ==
    /\ hpc[c] = "defer_close"
    /\ closedBy' = [closedBy EXCEPT ![c] = @ \cup {Handler(c)}]
    /\ hpc' = [hpc EXCEPT ![c] = "done"]
    /\ UNCHANGED <<clients, broadcast, mutex, nread, regCount, bvars, pvars, evars>>

wsHandler(c) ==
    \/ UpgradeOk(c)
    \/ UpgradeFail(c)
    \/ RegLock(c)
    \/ Register(c)
    \/ WelcomeBegin(c)
    \/ WelcomeOk(c)
    \/ WelcomeErr(c)
    \/ ReadBegin(c)
    \/ ReadOk(c)
    \/ ReadErr(c)
    \/ DeferLock(c)
    \/ DeferDelete(c)
    \/ DeferClose(c)

----------------------------------------------------------------------------
\* handleBroadcast, a single goroutine

\* Fault variant of Recv: the released sender registers again before reading.
RecvReregister(e) ==
    /\ bpc = "recv"
    /\ e \in broadcast
    /\ data' = e
    /\ broadcast' = broadcast \ {e}
    /\ hpc' = [hpc EXCEPT ![e.sender] = "admit"]
    /\ bpc' = "lock"
    /\ ndeq' = [ndeq EXCEPT ![e.sender] = @ + 1]
    /\ UNCHANGED <<clients, mutex, closedBy, nread, regCount,
                   bseen, bcur, bstart, bcount, bfailed, lastSeq, pvars, evars>>

\* Fault variant of Recv: the next envelope is also taken while a write of
\* the current one is in progress.
RecvDuringTraversal(e) ==
    /\ bpc \in {"recv", "write"}
    /\ e \in broadcast
    /\ data' = e
    /\ broadcast' = broadcast \ {e}
    /\ hpc' = [hpc EXCEPT ![e.sender] = "read"]
    /\ bpc' = IF bpc = "recv" THEN "lock" ELSE bpc
    /\ ndeq' = [ndeq EXCEPT ![e.sender] = @ + 1]
    /\ UNCHANGED <<clients, mutex, closedBy, nread, regCount,
                   bseen, bcur, bstart, bcount, bfailed, lastSeq, pvars, evars>>

\* data := <-broadcast: the rendezvous releases the blocked sender, which
\* goes back to the top of its read loop.
Recv(e) ==
    /\ bpc = "recv"
    /\ e \in broadcast
    /\ data' = e
    /\ broadcast' = broadcast \ {e}
    /\ hpc' = [hpc EXCEPT ![e.sender] = "read"]
    /\ bpc' = "lock"
    /\ ndeq' = [ndeq EXCEPT ![e.sender] = @ + 1]
    /\ UNCHANGED <<clients, mutex, closedBy, nread, regCount,
                   bseen, bcur, bstart, bcount, bfailed, lastSeq, pvars, evars>>

\* mutex.Lock(); the range loop starts
BLock ==
    /\ bpc = "lock"
    /\ Lock(Broadcaster)
    /\ bpc' = "range"
    /\ bseen' = {}
    /\ bstart' = clients
    /\ bcount' = Zero
    /\ bfailed' = {}
    /\ UNCHANGED <<clients, broadcast, closedBy, hvars, data, bcur, lastSeq, ndeq, pvars, evars>>

\* Fault variant of Skip: the sender is not skipped.
SkipNever(client, sender) == FALSE
\* `if client != sender` is false: the client is skipped
Skip(client, sender) == client = sender

\* the range loop produces the next key, in any order; a client that is
\* not skipped gets client.WriteMessage(TextMessage, message) called
BNext ==
    /\ bpc = "range"
    /\ \E client \in clients \ bseen :
        /\ bseen' = bseen \cup {client}
        /\ IF Skip(client, data.sender)
             THEN UNCHANGED <<bpc, bcur, bcount>>
             ELSE /\ bpc' = "write"
                  /\ bcur' = client
                  /\ bcount' = [bcount EXCEPT ![client] = @ + 1]
    /\ UNCHANGED <<clients, broadcast, mutex, closedBy, hvars, data, bstart,
                   bfailed, lastSeq, ndeq, pvars, evars>>

\* Fault variant of BWriteOk: the loop ends after the first successful write.
BWriteOkReturn ==
    /\ bpc = "write"
    /\ ~IsClosed(bcur)
    /\ bpc' = "range"
    /\ bseen' = clients
    /\ bcur' = 0
    /\ lastSeq' = [lastSeq EXCEPT ![data.sender] = Max(@, data.message[2])]
    /\ UNCHANGED <<clients, broadcast, mutex, closedBy, hvars, data,
                   bstart, bcount, bfailed, ndeq, pvars, evars>>

\* the write returns nil
BWriteOk ==
    /\ bpc = "write"
    /\ ~IsClosed(bcur)
    /\ bpc' = "range"
    /\ bcur' = 0
    /\ lastSeq' = [lastSeq EXCEPT ![data.sender] = Max(@, data.message[2])]
    /\ UNCHANGED <<clients, broadcast, mutex, closedBy, hvars, data, bseen,
                   bstart, bcount, bfailed, ndeq, pvars, evars>>

\* Fault variant of BWriteErr: the failed client is closed but not deleted.
BWriteErrNoDelete ==
    /\ bpc = "write"
    /\ bfailed' = bfailed \cup {bcur}
    /\ closedBy' = [closedBy EXCEPT ![bcur] = @ \cup {Broadcaster}]
    /\ bpc' = "range"
    /\ bcur' = 0
    /\ UNCHANGED <<clients, broadcast, mutex, hvars, data, bseen, bstart,
                   bcount, lastSeq, ndeq, pvars, evars>>

\* Fault variant of BWriteErr: the sender is deleted instead of the client.
BWriteErrDeleteSender ==
    /\ bpc = "write"
    /\ bfailed' = bfailed \cup {bcur}
    /\ closedBy' = [closedBy EXCEPT ![bcur] = @ \cup {Broadcaster}]
    /\ clients' = clients \ {data.sender}
    /\ bpc' = "range"
    /\ bcur' = 0
    /\ UNCHANGED <<broadcast, mutex, hvars, data, bseen, bstart,
                   bcount, lastSeq, ndeq, pvars, evars>>

\* Fault variant of BWriteErr: handleBroadcast returns on a failed write,
\* with the mutex still locked.
BWriteErrReturn ==
    /\ bpc = "write"
    /\ bfailed' = bfailed \cup {bcur}
    /\ closedBy' = [closedBy EXCEPT ![bcur] = @ \cup {Broadcaster}]
    /\ clients' = clients \ {bcur}
    /\ bpc' = "returned"
    /\ bcur' = 0
    /\ UNCHANGED <<broadcast, mutex, hvars, data, bseen, bstart,
                   bcount, lastSeq, ndeq, pvars, evars>>

\* the write returns an error: client.Close(); delete(clients, client)
BWriteErr ==
    /\ bpc = "write"
    /\ bfailed' = bfailed \cup {bcur}
    /\ closedBy' = [closedBy EXCEPT ![bcur] = @ \cup {Broadcaster}]
    /\ clients' = clients \ {bcur}
    /\ bpc' = "range"
    /\ bcur' = 0
    /\ UNCHANGED <<broadcast, mutex, hvars, data, bseen, bstart,
                   bcount, lastSeq, ndeq, pvars, evars>>

\* The broadcast range loop has produced every key of clients.
BRangeDone == bpc = "range" /\ clients \subseteq bseen

\* the range loop ends; mutex.Unlock(); back to the top of the for loop
BUnlock ==
    /\ BRangeDone
    /\ Unlock
    /\ bpc' = "recv"
    /\ data' = NoData
    /\ bseen' = {}
    /\ bstart' = {}
    /\ bcount' = Zero
    /\ bfailed' = {}
    /\ UNCHANGED <<clients, broadcast, closedBy, hvars, bcur, lastSeq, ndeq, pvars, evars>>

handleBroadcast ==
    \/ \E e \in broadcast : Recv(e)
    \/ BLock
    \/ BNext
    \/ BWriteOk
    \/ BWriteErr
    \/ BUnlock

----------------------------------------------------------------------------
\* keepAlive, a single goroutine

\* <-ticker.C; mutex.Lock(); the range loop starts
PLock ==
    /\ ppc = "tick"
    /\ Lock(Prober)
    /\ ppc' = "range"
    /\ pseen' = {}
    /\ pstart' = clients
    /\ pcount' = Zero
    /\ pfailed' = {}
    /\ UNCHANGED <<clients, broadcast, closedBy, hvars, bvars, evars, pcur>>

\* the range loop produces the next key and
\* client.WriteMessage(PingMessage, nil) is called
PNext ==
    /\ ppc = "range"
    /\ \E client \in clients \ pseen :
        /\ pseen' = pseen \cup {client}
        /\ ppc' = "write"
        /\ pcur' = client
        /\ pcount' = [pcount EXCEPT ![client] = @ + 1]
    /\ UNCHANGED <<clients, broadcast, mutex, closedBy, hvars, bvars, evars, pstart, pfailed>>

\* the ping write returns nil
PWriteOk ==
    /\ ppc = "write"
    /\ ~IsClosed(pcur)
    /\ ppc' = "range"
    /\ pcur' = 0
    /\ UNCHANGED <<clients, broadcast, mutex, closedBy, hvars, bvars, evars,
                   pseen, pstart, pcount, pfailed>>

\* Fault variant of PWriteErr: the failed client is closed but not deleted.
PWriteErrNoDelete ==
    /\ ppc = "write"
    /\ pfailed' = pfailed \cup {pcur}
    /\ closedBy' = [closedBy EXCEPT ![pcur] = @ \cup {Prober}]
    /\ ppc' = "range"
    /\ pcur' = 0
    /\ UNCHANGED <<clients, broadcast, mutex, hvars, bvars, evars, pseen, pstart, pcount>>

\* the ping write returns an error: client.Close(); delete(clients, client)
PWriteErr ==
    /\ ppc = "write"
    /\ pfailed' = pfailed \cup {pcur}
    /\ closedBy' = [closedBy EXCEPT ![pcur] = @ \cup {Prober}]
    /\ clients' = clients \ {pcur}
    /\ ppc' = "range"
    /\ pcur' = 0
    /\ UNCHANGED <<broadcast, mutex, hvars, bvars, evars, pseen, pstart, pcount>>

\* The ping range loop has produced every key of clients.
PRangeDone == ppc = "range" /\ clients \subseteq pseen

\* the range loop ends; mutex.Unlock(); back to the top of the for loop
PUnlock ==
    /\ PRangeDone
    /\ Unlock
    /\ ppc' = "tick"
    /\ pseen' = {}
    /\ pstart' = {}
    /\ pcount' = Zero
    /\ pfailed' = {}
    /\ UNCHANGED <<clients, broadcast, closedBy, hvars, bvars, evars, pcur>>

keepAlive ==
    \/ PLock
    \/ PNext
    \/ PWriteOk
    \/ PWriteErr
    \/ PUnlock

----------------------------------------------------------------------------
Next ==
    \/ \E c \in Conns : wsHandler(c)
    \/ handleBroadcast
    \/ keepAlive

Spec == Init /\ [][Next]_vars

\* The same program when only the first NLive requests ever arrive.
NextLive ==
    \/ \E c \in LiveConns : wsHandler(c)
    \/ handleBroadcast
    \/ keepAlive

----------------------------------------------------------------------------
\* The echo server (a separate program): wsEndpoint and reader

\* upgrader.Upgrade succeeds: ws is the connection
EUpgradeOk(e) ==
    /\ epc[e] = "start"
    /\ ews' = [ews EXCEPT ![e] = TRUE]
    /\ epc' = [epc EXCEPT ![e] = "greet"]
    /\ UNCHANGED <<necho, mvars>>

\* upgrader.Upgrade fails: ws is nil, the error is logged and the handler
\* goes on
EUpgradeFail(e) ==
    /\ epc[e] = "start"
    /\ ews' = [ews EXCEPT ![e] = FALSE]
    /\ epc' = [epc EXCEPT ![e] = "greet"]
    /\ UNCHANGED <<necho, mvars>>

\* ws.WriteMessage(1, "Hi Client!"): on a connection the write returns (an
\* error is only logged) and reader(ws) starts; on a nil ws the call panics
EGreet(e) ==
    /\ epc[e] = "greet"
    /\ epc' = [epc EXCEPT ![e] = IF ews[e] THEN "read" ELSE "panic"]
    /\ UNCHANGED <<ews, necho, mvars>>

\* reader: conn.ReadMessage() returns a message
EReadOk(e) ==
    /\ epc[e] = "read"
    /\ necho[e] < MaxEcho
    /\ epc' = [epc EXCEPT ![e] = "echo"]
    /\ UNCHANGED <<ews, necho, mvars>>

\* reader: conn.ReadMessage() returns an error: return
EReadErr(e) ==
    /\ epc[e] = "read"
    /\ epc' = [epc EXCEPT ![e] = "done"]
    /\ UNCHANGED <<ews, necho, mvars>>

\* reader: conn.WriteMessage(messageType, p) returns nil
EEchoOk(e) ==
    /\ epc[e] = "echo"
    /\ necho' = [necho EXCEPT ![e] = @ + 1]
    /\ epc' = [epc EXCEPT ![e] = "read"]
    /\ UNCHANGED <<ews, mvars>>

\* reader: conn.WriteMessage(messageType, p) returns an error: return
EEchoErr(e) ==
    /\ epc[e] = "echo"
    /\ epc' = [epc EXCEPT ![e] = "done"]
    /\ UNCHANGED <<ews, necho, mvars>>

wsEndpoint(e) ==
    \/ EUpgradeOk(e)
    \/ EUpgradeFail(e)
    \/ EGreet(e)
    \/ EReadOk(e)
    \/ EReadErr(e)
    \/ EEchoOk(e)
    \/ EEchoErr(e)

EchoNext == \E e \in EchoReqs : wsEndpoint(e)

EchoSpec == Init /\ [][EchoNext]_vars

\* The scheduler runs every runnable goroutine (weak fairness on each step
\* that only waits for the scheduler or for a socket write to return), and
\* sync.Mutex hands the lock to a goroutine that keeps waiting for it
\* (starvation mode), which is strong fairness on its Lock.
FairSpec ==
    /\ Init /\ [][NextLive]_vars
    /\ \A c \in LiveConns :
        /\ SF_vars(RegLock(c))
        /\ WF_vars(Register(c))
        /\ SF_vars(DeferLock(c))
        /\ WF_vars(DeferDelete(c))
        /\ WF_vars(DeferClose(c))
    /\ WF_vars(\E e \in broadcast : Recv(e))
    /\ SF_vars(BLock)
    /\ WF_vars(BNext \/ BWriteOk \/ BWriteErr \/ BUnlock)
    /\ WF_vars(PNext \/ PWriteOk \/ PWriteErr \/ PUnlock)

TypeOK ==
    /\ clients \subseteq Conns
    /\ mutex \in Tasks \cup {Free}
    /\ \A c \in Conns : nread[c] \in 0..MaxMsgs

----------------------------------------------------------------------------
\* Properties

\* A broadcast traversal is running (the range loop of handleBroadcast).
InBroadcast == bpc \in {"range", "write"}
\* A ping traversal is running (the range loop of keepAlive).
InProbe == ppc \in {"range", "write"}
\* The connection was inserted into the registry and is no longer in it.
Removed(c) == regCount[c] > 0 /\ c \notin clients

\* C1: while handleBroadcast processes the envelope (S, M), no write of M
\* is issued to S: S is never the client being written and its write count
\* for the traversal stays 0.
C1_NoSelfDelivery ==
    InBroadcast =>
        /\ bcount[data.sender] = 0
        /\ bpc = "write" => bcur # data.sender

\* A traversal has ended in which the range loop produced the registered
\* sender and wrote to another client.
C1_Witness ==
    /\ BRangeDone
    /\ data.sender \in bstart
    /\ data.sender \in bseen
    /\ \E c \in Conns : bcount[c] = 1

\* C2: no client is written twice in a traversal, and a traversal in which
\* no write failed has written exactly once to every client registered at
\* its start other than the sender, and to no other connection.
C2_FanOutComplete ==
    /\ \A c \in Conns : bcount[c] <= 1
    /\ (BRangeDone /\ bfailed = {}) =>
          \A c \in Conns :
              bcount[c] = IF c \in bstart \ {data.sender} THEN 1 ELSE 0

\* A failure-free traversal has ended with three registered connections,
\* the sender among them.
C2_Witness ==
    /\ BRangeDone
    /\ bfailed = {}
    /\ data.sender \in bstart
    /\ Cardinality(bstart) >= 3
    /\ Cardinality({c \in Conns : bcount[c] = 1}) >= 2

\* C3: a failed write closes and removes that client at once and nothing
\* else; at the end of a traversal every client registered at its start
\* other than the sender was written once, the failed ones are closed and
\* out of the registry, the others are still registered; and a traversal
\* never writes to a connection outside the registry or to one that
\* handleBroadcast pruned before.
C3_FaultIsolation ==
    /\ \A c \in Conns : Broadcaster \in closedBy[c] => c \notin clients
    /\ InBroadcast =>
          /\ bfailed \cap clients = {}
          /\ clients = bstart \ bfailed
          /\ \A c \in bfailed : Broadcaster \in closedBy[c]
          /\ bpc = "write" => bcur \in clients /\ Broadcaster \notin closedBy[bcur]
    /\ BRangeDone =>
          \A c \in bstart \ {data.sender} : bcount[c] = 1

\* A later traversal has ended without failure and has written to a client,
\* while a connection pruned by an earlier traversal was not part of it.
C3_Witness ==
    /\ BRangeDone
    /\ bfailed = {}
    /\ \E b \in Conns : Broadcaster \in closedBy[b] /\ b \notin bstart /\ bcount[b] = 0
    /\ \E c \in Conns : bcount[c] = 1 /\ c \in clients

\* C4: a message of sender A is written to a client only if no later
\* message of A has been written to any client before, so the writes of
\* M1 and M2 reach every recipient in the order A's reader received them.
C4_PerSenderOrder ==
    bpc = "write" => data.message[2] >= lastSeq[data.sender]

\* The second message of connection 1 is being written to connection 2,
\* the only other connection ever admitted, after the first one was written.
C4_Witness ==
    /\ bpc = "write"
    /\ data = Envelope(1, <<1, 2>>)
    /\ bcur = 2
    /\ lastSeq[1] = 1
    /\ hpc[3] = "start"

\* C5: Close is called exactly once on every connection whose handler has
\* finished, and never twice on any connection.
C5_ExactlyOnceCleanup ==
    \A c \in Conns :
        /\ Cardinality(closedBy[c]) <= 1
        /\ hpc[c] = "done" => Cardinality(closedBy[c]) = 1

\* The goroutine is inside a critical section of the mutex.
InCS(t) ==
    \/ t = Broadcaster /\ InBroadcast
    \/ t = Prober /\ InProbe
    \/ \E c \in Conns : t = Handler(c) /\ hpc[c] \in {"register", "defer_delete"}

\* C6: at most one goroutine is inside a critical section and it holds the
\* mutex; while a traversal runs the registry is changed only by that
\* traversal, never by a handler or by the other traversal.
C6_MutualExclusion ==
    /\ [](/\ Cardinality({t \in Tasks : InCS(t)}) <= 1
          /\ \A t \in Tasks : InCS(t) => mutex = t)
    /\ [][/\ (InBroadcast /\ clients' # clients) => (hpc' = hpc /\ ppc' = ppc)
          /\ (InProbe /\ clients' # clients) => (hpc' = hpc /\ bpc' = bpc)]_vars

\* A broadcast write is in progress while one handler waits for the mutex
\* to register and another waits for it to clean up.
C6_Witness ==
    /\ bpc = "write"
    /\ \E c, d \in Conns : hpc[c] = "admit" /\ hpc[d] = "defer_lock"

\* The handler has left its loop: the welcome write or a read has failed.
Failed(c) == hpc[c] \in {"defer_lock", "defer_delete", "defer_close", "done"}

\* C7: a handler whose welcome write or read failed eventually finishes
\* with its connection out of the registry and closed, and no handler ever
\* finishes leaving its connection registered or open.
C7_CleanupOnExit ==
    /\ \A c \in LiveConns :
          Failed(c) ~> (hpc[c] = "done" /\ c \notin clients /\ IsClosed(c))
    /\ [](\A c \in LiveConns :
            hpc[c] = "done" => (c \notin clients /\ Handler(c) \in closedBy[c]))

\* A handler has failed and waits for the mutex, still registered, while a
\* traversal holds the mutex with a write in progress.
C7_Witness ==
    \E c \in LiveConns :
        /\ hpc[c] = "defer_lock"
        /\ c \in clients
        /\ mutex \in {Broadcaster, Prober}
        /\ (bpc = "write" \/ ppc = "write")

\* C8: a ping traversal pings no connection twice and none outside the
\* registry; a failed ping closes and removes that client at once; at the
\* end every client registered at the start was pinged once, the failed
\* ones are closed and removed, the others are still registered; and the
\* loop always has a next step, back to waiting for the ticker.
C8_ProbePruning ==
    /\ \A c \in Conns : pcount[c] <= 1
    /\ \A c \in Conns : Prober \in closedBy[c] => c \notin clients
    /\ InProbe =>
          /\ clients = pstart \ pfailed
          /\ \A c \in pfailed : Prober \in closedBy[c]
          /\ \A c \in Conns \ pstart : pcount[c] = 0
          /\ ENABLED keepAlive
    /\ PRangeDone => \A c \in pstart : pcount[c] = 1

\* A ping traversal over three registered connections has ended in which
\* exactly the ping to connection 2 failed.
C8_Witness ==
    /\ PRangeDone
    /\ pstart = {1, 2, 3}
    /\ pfailed = {2}
    /\ clients = {1, 3}

\* UNREGISTERED -> REGISTERED -> CLOSED
Phase(c) ==
    IF c \in clients THEN "REGISTERED"
    ELSE IF regCount[c] = 0 /\ ~IsClosed(c) THEN "UNREGISTERED"
    ELSE "CLOSED"

\* C9: a connection is inserted into the registry at most once, and its
\* phase only ever moves from UNREGISTERED to REGISTERED and from
\* REGISTERED to CLOSED.
C9_MonotoneLifecycle ==
    /\ [](\A c \in Conns : regCount[c] <= 1)
    /\ [][\A c \in Conns :
            Phase(c)' # Phase(c) =>
                <<Phase(c), Phase(c)'>> \in
                    {<<"UNREGISTERED", "REGISTERED">>, <<"REGISTERED", "CLOSED">>}]_vars

\* A connection pruned by a traversal is closed and out of the registry
\* while its handler is still running and another connection is registered.
C9_Witness ==
    \E c, d \in Conns :
        /\ Phase(c) = "CLOSED"
        /\ closedBy[c] \cap {Broadcaster, Prober} # {}
        /\ hpc[c] \in {"welcome", "read", "send"}
        /\ Phase(d) = "REGISTERED"

\* C10: no step issues a welcome write, a read, a broadcast write or a ping
\* on a connection that has been removed from the registry.
C10_NoUseAfterDeregistration ==
    [][\A c \in Conns :
          Removed(c) =>
              /\ ~(hpc[c] = "welcome" /\ hpc'[c] = "welcoming")
              /\ ~(hpc[c] = "read" /\ hpc'[c] = "reading")
              /\ ~(bpc = "range" /\ bpc' = "write" /\ bcur' = c)
              /\ ~(ppc = "range" /\ ppc' = "write" /\ pcur' = c)]_vars

\* C11: no broadcast write and no ping is in progress on a connection
\* whose welcome write has not completed yet.
C11_WelcomeOnceAndFirst ==
    \A c \in Conns :
        hpc[c] \in {"admit", "register", "welcome", "welcoming"} =>
            /\ ~(bpc = "write" /\ bcur = c)
            /\ ~(ppc = "write" /\ pcur = c)

\* The envelopes of the sender that wait in the channel.
Pending(c) == {e \in broadcast : e.sender = c}

\* C12: every message a handler has read is one envelope carrying the
\* handler's own connection as sender, which either still blocks the
\* handler in the channel send or was received by handleBroadcast exactly
\* once; the envelope handleBroadcast processes is the last one it received.
C12_EnvelopeHandOff ==
    /\ \A c \in Conns :
          /\ Cardinality(Pending(c)) <= 1
          /\ Pending(c) \subseteq {Envelope(c, <<c, nread[c]>>)}
          /\ (hpc[c] = "send") <=> (Pending(c) # {})
          /\ ndeq[c] + Cardinality(Pending(c)) = nread[c]
    /\ data # NoData =>
          (data.sender \in Conns /\ data = Envelope(data.sender, <<data.sender, ndeq[data.sender]>>))

\* The traversal of the second message of a connection has ended with a
\* write: both of its messages were read and received once.
C12_Witness ==
    /\ BRangeDone
    /\ \E c \in Conns : data.sender = c /\ nread[c] = 2 /\ ndeq[c] = 2 /\ bcount # Zero

\* C13: handleBroadcast takes an envelope only when it is idle, that is
\* after the traversal of the previous envelope has ended and its mutex is
\* released; the envelope does not change while a traversal runs, so every
\* write of envelope k has returned before the first write of envelope k+1.
C13_OneAtATime ==
    [][/\ (data' # data /\ data' # NoData) =>
              (bpc = "recv" /\ mutex # Broadcaster /\ bcount = Zero)
       /\ InBroadcast => (data' = data \/ (BRangeDone /\ data' = NoData))
       /\ (bpc # "write" /\ bpc' = "write") => (data' = data /\ mutex = Broadcaster)]_vars

\* A write of an envelope is in progress after another write of it has
\* returned, while the next envelope waits in the channel.
C13_Witness ==
    /\ bpc = "write"
    /\ broadcast # {}
    /\ \E c \in Conns : c # bcur /\ bcount[c] = 1

\* C14: a request whose upgrade failed is never registered, written,
\* closed or cleaned up: its handler has returned, the step that rejects it
\* changes neither the registry nor the mutex, and it stays rejected.
C14_AdmissionFailureNoTrace ==
    /\ [](\A c \in Conns :
            hpc[c] = "rejected" =>
                /\ c \notin clients
                /\ regCount[c] = 0
                /\ closedBy[c] = {}
                /\ mutex # Handler(c))
    /\ [][\A c \in Conns :
            /\ (hpc[c] # "rejected" /\ hpc'[c] = "rejected") =>
                  (hpc[c] = "start" /\ clients' = clients /\ mutex' = mutex
                   /\ closedBy' = closedBy)
            /\ hpc[c] = "rejected" => hpc'[c] = "rejected"]_vars

\* A request was rejected while another connection is registered.
C14_Witness ==
    \E c, d \in Conns : hpc[c] = "rejected" /\ d \in clients /\ hpc[d] = "reading"

\* C15: a step removes at most the one connection it failed on: the
\* handler's own cleanup after its failed welcome or read, or the client
\* whose broadcast write or ping just failed; a traversal without a failed
\* write leaves the registry as it found it.
C15_RemovalOnlyOnFailure ==
    /\ [][\A c \in clients \ clients' :
            \/ hpc[c] = "defer_delete" /\ mutex = Handler(c)
            \/ bpc = "write" /\ bcur = c /\ c \in bfailed' /\ mutex = Broadcaster
            \/ ppc = "write" /\ pcur = c /\ c \in pfailed' /\ mutex = Prober]_vars
    /\ []((BRangeDone /\ bfailed = {}) => clients = bstart)
    /\ []((PRangeDone /\ pfailed = {}) => clients = pstart)

\* A ping traversal over three registered connections has ended without a
\* failure and the registry is as it was.
C15_Witness ==
    /\ PRangeDone
    /\ pfailed = {}
    /\ Cardinality(pstart) >= 3
    /\ clients = pstart

\* The envelopes the handlers of the fair specification can produce.
LiveEnvelopes == {Envelope(c, <<c, k>>) : c \in LiveConns, k \in 1..MaxMsgs}

\* C16: handleBroadcast stays in its loop, every envelope a handler is
\* blocked on in the channel send is eventually the one whose traversal
\* has ended, and a traversal that has ended has written to every client
\* registered at its start other than the sender.
C16_EventualDelivery ==
    /\ \A e \in LiveEnvelopes : (e \in broadcast) ~> (data = e /\ BRangeDone)
    /\ [](bpc \in {"recv", "lock", "range", "write"})
    /\ [](BRangeDone => \A c \in bstart \ {data.sender} : bcount[c] = 1)

\* Both handlers are blocked in the channel send while keepAlive holds the
\* mutex with a ping in progress.
C16_Witness ==
    /\ \A c \in LiveConns : hpc[c] = "send"
    /\ Cardinality(broadcast) = 2
    /\ mutex = Prober
    /\ ppc = "write"

\* C17: whenever the mutex is free, Close has not been called on any
\* connection that is in the registry.
C17_RegistryHoldsLiveHandles ==
    mutex = Free => \A c \in clients : ~IsClosed(c)

\* The mutex is free, a handler has deleted its connection and not closed
\* it yet, a traversal has pruned another one, and a third is registered.
C17_Witness ==
    /\ mutex = Free
    /\ \E c \in Conns : hpc[c] = "defer_close" /\ c \notin clients /\ ~IsClosed(c)
    /\ \E d \in Conns : closedBy[d] \cap {Broadcaster, Prober} # {} /\ d \notin clients
    /\ clients # {}

\* The goroutines that have a WriteMessage in progress on the connection.
Writers(c) ==
    {Handler(d) : d \in {d \in Conns : d = c /\ hpc[d] = "welcoming"}}
        \cup {t \in {Broadcaster} : bpc = "write" /\ bcur = c}
        \cup {t \in {Prober} : ppc = "write" /\ pcur = c}

\* C18: at most one write is in progress on any connection.
C18_SingleWriter ==
    \A c \in Conns : Cardinality(Writers(c)) <= 1

\* C19: the goroutine that holds the mutex always has a step it can take
\* (it waits neither for the mutex nor for the channel), a goroutine that
\* waits for the mutex or is blocked in the channel send does not hold the
\* mutex, and an idle handleBroadcast can receive whenever a sender waits.
C19_DeadlockFreedom ==
    /\ \A c \in Conns :
          /\ mutex = Handler(c) => ENABLED (Register(c) \/ DeferDelete(c))
          /\ hpc[c] \in {"admit", "send", "defer_lock"} => mutex # Handler(c)
    /\ mutex = Broadcaster => ENABLED (BNext \/ BWriteOk \/ BWriteErr \/ BUnlock)
    /\ mutex = Prober => ENABLED (PNext \/ PWriteOk \/ PWriteErr \/ PUnlock)
    /\ bpc \in {"recv", "lock"} => mutex # Broadcaster
    /\ ppc = "tick" => mutex # Prober
    /\ (bpc = "recv" /\ broadcast # {}) => ENABLED handleBroadcast

\* A handler is blocked in the channel send and another waits for the
\* mutex in its deferred cleanup while handleBroadcast holds the mutex with
\* a write in progress.
C19_Witness ==
    /\ mutex = Broadcaster
    /\ bpc = "write"
    /\ \E c, d \in Conns : hpc[c] = "send" /\ hpc[d] = "defer_lock"

\* C20: in the echo server a handler gets past the greeting write, into
\* the reader loop or to its end, only with a successfully upgraded
\* connection; after a failed upgrade it calls neither WriteMessage nor
\* ReadMessage on the nil connection.
C20_EchoGuardsFailedUpgrade ==
    \A e \in EchoReqs :
        epc[e] \in {"read", "echo", "done", "panic"} => ews[e]

====
